---- MODULE Spec2Model ----
(***************************************************************************)
(* Model of core/core_module.py (class CORE): the informativeness scorer   *)
(* calculate_informativeness_weights, the greedy selector                  *)
(* select_core_subclaims and their composition apply_core.                 *)
(*                                                                         *)
(* Numbers.  Probabilities returned by get_entailment_probability live on  *)
(* the grid k / PGrid, k in 0..PGrid (PGrid stands for 1.0).  Cosine       *)
(* similarities and the threshold live on the grid k / SimScale (SimScale  *)
(* stands for 1.0); the threshold may also lie outside [0, 1].  Weights    *)
(* are 1000 * (-ln p), rounded, read from a table of natural logarithms.   *)
(*                                                                         *)
(* Claims.  A subclaim string is represented by a token 1..n; Python list  *)
(* position p (1-based here) carries the Python index p - 1.               *)
(*                                                                         *)
(* Models.  The similarity model is a table fixed when the call starts.    *)
(* The entailment model is asked once per (bleached claim, subclaim) pair  *)
(* of a call; its answers for a subclaim are drawn when that subclaim is   *)
(* scored.                                                                 *)
(***************************************************************************)
EXTENDS Integers, Sequences, FiniteSets, TLC

\* ---------------------------------------------------------------- bounds
MaxClaims == 3      \* subclaims passed to select_core_subclaims directly
MaxScored == 2      \* subclaims passed to the scorer / apply_core
MaxBleached == 2    \* bleached claims
PGrid == 2          \* probability resolution: p = k / PGrid
SimScale == 1       \* similarity resolution: s = k / SimScale
MaxWords == 6        \* symbols in the objects of an input fact, all together
MaxMarkers == 2      \* symbols other than "w" in an input fact
MaxPreps == 2        \* prepositional fragments of an input fact
MaxTokens == 4       \* tokens of a parsed text that the extraction looks at
MaxSentences == 2    \* sentences of the text given to run_pipeline
MaxCorefSentences == 3   \* sentences of the text given to long_coref_resolution
MaxTexts == 3        \* distinct subclaims, contexts and answers of the language model

Probs == 0..PGrid
Sims == 0..SimScale
Thresholds == (0 - 1)..(SimScale + 1)

\* 1000 * ln(k), rounded, for k = 1..9
LnTable == <<0, 693, 1099, 1386, 1609, 1792, 1946, 2079, 2197>>

VARIABLES
    entry,                \* which method was called
    pc,                   \* position inside the call
    outcome,              \* "none" | "returned" | "raised"
    subclaims,            \* argument: list of subclaim tokens
    bleached_claims,      \* argument: list of bleached claim tokens
    threshold,            \* argument: similarity threshold
    entail_probs,         \* entailment model's answers for the subclaim scored last
    min_entailments,      \* per scored subclaim, the least answer of the entailment model
    sim,                  \* similarity model: sim[<<c, d>>] for c < d
    weights,              \* weights built by the scorer / given to the selector
    subclaims_sorted,     \* local of select_core_subclaims
    pos,                  \* loop position (1-based) of the running loop
    selected_indices,     \* local of select_core_subclaims
    selected_embeddings,  \* local of select_core_subclaims
    result,               \* returned value
    failedPair,           \* <<candidate embedding, accepted embedding>> whose similarity raised
    failedEntailment,     \* <<bleached claim, subclaim>> whose entailment query raised
    encodings,            \* indices of the claims encoded so far by the selector, per call of encode
    func,                 \* which function of decomposition_module was called
    at,                   \* position inside that call
    fact,                 \* argument of the outermost split_complex_fact call
    calls,                \* pending split_complex_fact calls, innermost first
    atomic_facts,         \* facts returned so far
    relative,             \* parse of the relative clause being read
    pass,                 \* 1: first application, 2: output fed back in
    first_output,         \* what the first application returned
    sentences,            \* run_pipeline: number of sentences of the text
    sentence,             \* run_pipeline: index of the sentence in the loop
    all_subclaims,        \* run_pipeline: number of subclaims collected so far
    failed,               \* sentences whose resolution or parse raised
    resolved_doc,         \* decompose_sentence: parse of the resolved text
    sent,                 \* decompose_sentence: index of the sentence of the parse
    token,                \* decompose_sentence: index of the verb in that sentence
    facts,                \* local of decompose_sentence
    current_subject,      \* local of decompose_sentence, <<>> for None
    numbered_facts,       \* value returned by decompose_sentence
    coref_at,             \* position inside a call of long_coref_resolution
    sentence_lengths,     \* per sentence of the text, its number of tokens
    reading,              \* index of the sentence the chunking loop reads next
    chunks,               \* local of long_coref_resolution: chunks as lists of sentence indices
    current_chunk,        \* local of long_coref_resolution
    current_length,       \* local of long_coref_resolution
    queried,              \* number of chunks sent to the coreference API so far
    resolved_text,        \* local of long_coref_resolution: the pieces appended so far
    decontext_at,         \* position inside a call of decontextualize_with_llama3
    arg_subclaim,         \* argument subclaim
    arg_context,          \* argument context
    attempt_number,       \* attempts of the retrying wrapper so far
    response,             \* what the request of the running attempt came to
    attempt_outcome,      \* how the body of the running attempt ended
    returned_value        \* what the call gave its caller

coreVars == <<entry, pc, outcome, subclaims, bleached_claims, threshold, entail_probs,
          min_entailments, sim,
          weights, subclaims_sorted, pos, selected_indices, selected_embeddings,
          result, failedPair, failedEntailment, encodings>>

extractVars == <<sentences, sentence, all_subclaims, failed, resolved_doc, sent, token,
                 facts, current_subject, numbered_facts>>

decompVars == <<func, at, fact, calls, atomic_facts, relative, pass, first_output,
                extractVars>>

corefVars == <<coref_at, sentence_lengths, reading, chunks, current_chunk, current_length,
               queried, resolved_text>>

decontextVars == <<decontext_at, arg_subclaim, arg_context, attempt_number, response,
                   attempt_outcome, returned_value>>

vars == <<coreVars, decompVars, corefVars, decontextVars>>

\* ------------------------------------------------------------- helpers
Min2(a, b) == IF b < a THEN b ELSE a

Range(s) == {s[k] : k \in 1..Len(s)}

Pairs(n) == {pr \in (1..n) \X (1..n) : pr[1] < pr[2]}

\* list(range(1, n + 1)) used as the tokens of n distinct strings
Tokens(n) == [k \in 1..n |-> k]

\* ------------------------------------------------------------- scorer
\* -np.log(p) for p = k / PGrid > 0, times 1000
NegLog(k) == LnTable[PGrid] - LnTable[k]

\* line 36 without the floor: -np.log(0) is +inf, here a number above every weight
InformativenessNoFloor(min_entailment) ==
    IF min_entailment > 0 THEN NegLog(min_entailment) ELSE 1000 * 1000

\* line 36 without the minus sign
InformativenessNoNeg(min_entailment) ==
    IF min_entailment > 0 THEN LnTable[min_entailment] - LnTable[PGrid] ELSE 0

\* line 36: -np.log(min_entailment) if min_entailment > 0 else 0.0
Informativeness(min_entailment) ==
    IF min_entailment > 0 THEN NegLog(min_entailment) ELSE 0

\* lines 31-34 with min_entailment = entail_prob in place of the minimum
RECURSIVE LastEntailment(_, _, _)
LastEntailment(probs, k, acc) ==
    IF k > Len(probs) THEN acc
    ELSE LastEntailment(probs, k + 1, probs[k])

\* lines 31-34: the running minimum, started at acc, over the answers
\* probs[k..] that get_entailment_probability gives for bleached_claims[k..]
RECURSIVE MinEntailment(_, _, _)
MinEntailment(probs, k, acc) ==
    IF k > Len(probs) THEN acc
    ELSE MinEntailment(probs, k + 1, Min2(acc, probs[k]))

\* the least of the answers, PGrid + 1 when nothing was asked
LeastAnswer(probs) ==
    IF probs = <<>> THEN PGrid + 1
    ELSE CHOOSE p \in Range(probs) : \A q \in Range(probs) : p <= q

\* the weight lists of n claims up to order: the selector only compares
\* weights, so every list is order-isomorphic to one whose values fill 0..k
WeightLists(n) ==
    {ws \in [1..n -> 0..(n - 1)] :
        \A v \in 1..(n - 1) :
            (\E k \in 1..n : ws[k] = v) => (\E k \in 1..n : ws[k] = v - 1)}

\* ------------------------------------------------------------ selector
\* line 94 with enumerate(..., start=1)
EnumerateFromOne(cs, ws) ==
    [p \in 1..Min2(Len(cs), Len(ws)) |-> [idx |-> p, subclaim |-> cs[p], weight |-> ws[p]]]

\* line 94: list(enumerate(zip(subclaims, informativeness_weights)))
EnumerateZip(cs, ws) ==
    [p \in 1..Min2(Len(cs), Len(ws)) |-> [idx |-> p - 1, subclaim |-> cs[p], weight |-> ws[p]]]

\* insertion of x in front of the elements of equal weight: an unstable sort
RECURSIVE InsertDescStrict(_, _)
InsertDescStrict(s, x) ==
    IF s = <<>> THEN <<x>>
    ELSE IF Head(s).weight > x.weight THEN <<Head(s)>> \o InsertDescStrict(Tail(s), x)
    ELSE <<x>> \o s

\* insertion of x behind every element whose weight is >= x.weight
RECURSIVE InsertDesc(_, _)
InsertDesc(s, x) ==
    IF s = <<>> THEN <<x>>
    ELSE IF Head(s).weight >= x.weight THEN <<Head(s)>> \o InsertDesc(Tail(s), x)
    ELSE <<x>> \o s

RECURSIVE InsertAsc(_, _)
InsertAsc(s, x) ==
    IF s = <<>> THEN <<x>>
    ELSE IF Head(s).weight <= x.weight THEN <<Head(s)>> \o InsertAsc(Tail(s), x)
    ELSE <<x>> \o s

RECURSIVE SortAscFrom(_, _, _)
SortAscFrom(s, k, acc) ==
    IF k > Len(s) THEN acc ELSE SortAscFrom(s, k + 1, InsertAsc(acc, s[k]))

RECURSIVE SortDescFrom(_, _, _)
SortDescFrom(s, k, acc) ==
    IF k > Len(s) THEN acc ELSE SortDescFrom(s, k + 1, InsertDesc(acc, s[k]))

Reverse(s) == [k \in 1..Len(s) |-> s[Len(s) + 1 - k]]

\* sorted(..., key=weight) without reverse=True
SortedAscending(s) == SortAscFrom(s, 1, <<>>)

\* sorted(..., key=weight)[::-1]: descending, but ties in reversed input order
SortedThenReversed(s) == Reverse(SortAscFrom(s, 1, <<>>))

\* line 96 left out: the claims stay in the order of the input
Unsorted(s) == s

\* line 96: sorted(..., key=weight, reverse=True); Python's sort is stable
\* and reverse=True keeps the original order of equal keys
SortedDescending(s) == SortDescFrom(s, 1, <<>>)

\* line 103: self.similarity_model.encode(subclaim)
Encode(subclaim) == subclaim

\* line 106: cosine similarity of two embeddings
CosSim(e1, e2) ==
    IF e1 = e2 THEN SimScale
    ELSE IF e1 < e2 THEN sim[<<e1, e2>>] ELSE sim[<<e2, e1>>]

\* lines 102, 105-109 with the comparison against the last accepted claim only
IsUniqueLastOnly(embedding, embs, tau) ==
    embs = <<>> \/ ~(CosSim(embedding, embs[Len(embs)]) > tau)

\* lines 102, 105-109 with the test similarity >= threshold
IsUniqueBelowOnly(embedding, embs, tau) ==
    \A k \in 1..Len(embs) : ~(CosSim(embedding, embs[k]) >= tau)

\* lines 102, 105-109: is_unique after the inner loop
IsUnique(embedding, embs, tau) ==
    \A k \in 1..Len(embs) : ~(CosSim(embedding, embs[k]) > tau)

\* the comparisons the inner loop makes before it breaks: positions 1..k
\* such that no earlier position exceeded the threshold
Compared(embedding, embs, tau) ==
    {k \in 1..Len(embs) : \A j \in 1..(k - 1) : ~(CosSim(embedding, embs[j]) > tau)}

\* lines 103-109 with the accepted claim encoded again for every comparison
EncodeCallsPerComparison(cand, idxs, embs, tau) ==
    <<cand.idx>>
    \o [k \in 1..Cardinality(Compared(Encode(cand.subclaim), embs, tau)) |-> idxs[k]]

\* lines 103-109: the calls of similarity_model.encode in one iteration, by
\* the index of the claim encoded: line 103 for the candidate, none in the
\* inner loop, which reads selected_embeddings
EncodeCalls(cand, idxs, embs, tau) == <<cand.idx>>

\* lines 101-113 as a function of the sorted list: the loop from position k
\* on, with the locals selected_indices and selected_embeddings
RECURSIVE SelectFrom(_, _, _, _, _)
SelectFrom(sorted, k, idxs, embs, tau) ==
    IF k > Len(sorted) THEN idxs
    ELSE LET embedding == Encode(sorted[k].subclaim)
         IN  IF IsUnique(embedding, embs, tau)
             THEN SelectFrom(sorted, k + 1, Append(idxs, sorted[k].idx),
                             Append(embs, embedding), tau)
             ELSE SelectFrom(sorted, k + 1, idxs, embs, tau)

\* lines 93-115: the list select_core_subclaims returns
SelectCoreSubclaims(cs, ws, tau) ==
    SelectFrom(SortedDescending(EnumerateZip(cs, ws)), 1, <<>>, <<>>, tau)

(***************************************************************************)
(* Model of decomposition/decomposition_module.py: split_complex_fact and  *)
(* decompose_sentence.                                                     *)
(*                                                                         *)
(* Strings.  A string is a sequence of symbols: the word "w" (any word     *)
(* that is no marker), the words "and", "that", "which", and the comma     *)
(* ",", which is written directly behind the symbol before it; all other   *)
(* symbols are separated by one blank.  Letter case is not represented.    *)
(* A fact is a record with the four keys of the fact dictionaries.         *)
(*                                                                         *)
(* Parser.  nlp(...) is an external statistical parser.  Its answer for a  *)
(* relative clause is drawn token by token; it never gives the comma or    *)
(* the coordinator "and" a role inside a phrase (they are punct and cc).   *)
(***************************************************************************)

\* ------------------------------------------------------------- strings
\* the symbol at position i is the word m with a blank on both sides
MarkerAt(s, m, i) ==
    /\ 1 < i
    /\ i < Len(s)
    /\ s[i] = m
    /\ s[i + 1] # ","

\* ' m ' in s
HasMarker(s, m) == \E i \in 1..Len(s) : MarkerAt(s, m, i)

\* s.split(' m ') from position i on: cur is the part being read, blank tells
\* whether the blank in front of position i is still unused
RECURSIVE SplitFrom(_, _, _, _, _)
SplitFrom(s, m, i, cur, blank) ==
    IF i > Len(s) THEN <<cur>>
    ELSE IF blank /\ MarkerAt(s, m, i)
         THEN <<cur>> \o SplitFrom(s, m, i + 1, <<>>, FALSE)
         ELSE SplitFrom(s, m, i + 1, Append(cur, s[i]), TRUE)

\* s.split(' m '), every part stripped
SplitOn(s, m) == SplitFrom(s, m, 1, <<>>, FALSE)

\* (' m ').join(parts)
RECURSIVE JoinWith(_, _)
JoinWith(parts, m) ==
    IF parts = <<>> THEN <<>>
    ELSE IF Len(parts) = 1 THEN parts[1]
    ELSE parts[1] \o <<m>> \o JoinWith(Tail(parts), m)

\* (', ').join(parts)
RECURSIVE JoinComma(_)
JoinComma(parts) ==
    IF parts = <<>> THEN <<>>
    ELSE IF Len(parts) = 1 THEN parts[1]
    ELSE parts[1] \o <<",">> \o JoinComma(Tail(parts))

\* s.strip(','): commas at both ends removed
RECURSIVE StripCommas(_)
StripCommas(s) ==
    IF s = <<>> THEN s
    ELSE IF Head(s) = "," THEN StripCommas(Tail(s))
    ELSE IF s[Len(s)] = "," THEN StripCommas(SubSeq(s, 1, Len(s) - 1))
    ELSE s


\* the fact dictionaries of decomposition_module.py
MakeFact(s, v, d, ps) ==
    [subject |-> s, verb |-> v, direct_object |-> d, prepositional_objects |-> ps]

\* no fact: the caller of an outermost call
NoFact == MakeFact(<<>>, <<>>, <<>>, <<>>)

\* no relative clause is being parsed
NoParse ==
    [clause |-> <<>>, root |-> 0, pos |-> 0, subject |-> <<>>, directs |-> <<>>,
     preps |-> <<>>, mods |-> <<>>, prep |-> <<>>]

\* no request was made, and nothing has ended or was returned
NoResponse == [kind |-> "none", content |-> 0]
NoOutcome == [kind |-> "none", text |-> 0]

\* ---------------------------------------------------------------- Init
Init ==
    /\ entry = "none"
    /\ pc = "ready"
    /\ outcome = "none"
    /\ subclaims = <<>>
    /\ bleached_claims = <<>>
    /\ threshold = 1
    /\ entail_probs = <<>>
    /\ min_entailments = <<>>
    /\ sim = <<>>
    /\ weights = <<>>
    /\ subclaims_sorted = <<>>
    /\ pos = 1
    /\ selected_indices = <<>>
    /\ selected_embeddings = <<>>
    /\ result = <<>>
    /\ failedPair = <<>>
    /\ failedEntailment = <<>>
    /\ encodings = <<>>
    /\ func = "none"
    /\ at = "ready"
    /\ fact = NoFact
    /\ calls = <<>>
    /\ atomic_facts = <<>>
    /\ relative = NoParse
    /\ pass = 1
    /\ first_output = <<>>
    /\ sentences = 0
    /\ sentence = 1
    /\ all_subclaims = 0
    /\ failed = {}
    /\ resolved_doc = <<>>
    /\ sent = 1
    /\ token = 1
    /\ facts = <<>>
    /\ current_subject = <<>>
    /\ numbered_facts = <<>>
    /\ coref_at = "idle"
    /\ sentence_lengths = <<>>
    /\ reading = 1
    /\ chunks = <<>>
    /\ current_chunk = <<>>
    /\ current_length = 0
    /\ queried = 0
    /\ resolved_text = <<>>
    /\ decontext_at = "idle"
    /\ arg_subclaim = 0
    /\ arg_context = 0
    /\ attempt_number = 0
    /\ response = NoResponse
    /\ attempt_outcome = NoOutcome
    /\ returned_value = NoOutcome

\* ------------------------------------------------------------- actions
\* lines 93-99: entry of select_core_subclaims
EnterSelect(cs, ws) ==
    /\ subclaims_sorted' = SortedDescending(EnumerateZip(cs, ws))
    /\ selected_indices' = <<>>
    /\ selected_embeddings' = <<>>
    /\ encodings' = <<>>
    /\ pos' = 1
    /\ pc' = "select_loop"

\* a caller invokes select_core_subclaims(subclaims, informativeness_weights, threshold)
CallSelect ==
    /\ pc = "ready"
    /\ \E n \in 0..MaxClaims :
         \E ws \in WeightLists(n), sm \in [Pairs(n) -> Sims], tau \in Thresholds :
            /\ entry' = "select_core_subclaims"
            /\ subclaims' = Tokens(n)
            /\ weights' = ws
            /\ sim' = sm
            /\ threshold' = tau
            /\ EnterSelect(Tokens(n), ws)
    /\ UNCHANGED <<outcome, bleached_claims, entail_probs, min_entailments, result,
                   failedPair, failedEntailment>>
    /\ UNCHANGED <<decompVars, corefVars, decontextVars>>

\* a caller invokes calculate_informativeness_weights(subclaims, bleached_claims)
CallCalculate ==
    /\ pc = "ready"
    /\ \E n \in 0..MaxScored, m \in 0..MaxBleached :
            /\ entry' = "calculate_informativeness_weights"
            /\ subclaims' = Tokens(n)
            /\ bleached_claims' = Tokens(m)
    /\ weights' = <<>>
    /\ pos' = 1
    /\ pc' = "score_loop"
    /\ UNCHANGED <<outcome, threshold, entail_probs, min_entailments, sim, subclaims_sorted, selected_indices,
                   selected_embeddings, result, failedPair, failedEntailment>>
    /\ UNCHANGED encodings
    /\ UNCHANGED <<decompVars, corefVars, decontextVars>>

\* a caller invokes apply_core(subclaims, bleached_claims, threshold); line 129
CallApplyCore ==
    /\ pc = "ready"
    /\ \E n \in 0..MaxScored, m \in 0..MaxBleached :
         \E sm \in [Pairs(n) -> Sims], tau \in Thresholds :
            /\ entry' = "apply_core"
            /\ subclaims' = Tokens(n)
            /\ bleached_claims' = Tokens(m)
            /\ sim' = sm
            /\ threshold' = tau
    /\ weights' = <<>>
    /\ pos' = 1
    /\ pc' = "score_loop"
    /\ UNCHANGED <<outcome, entail_probs, min_entailments, subclaims_sorted,
                   selected_indices, selected_embeddings, result, failedPair, failedEntailment>>
    /\ UNCHANGED encodings
    /\ UNCHANGED <<decompVars, corefVars, decontextVars>>

\* lines 30-37: one iteration of the outer loop of the scorer
ScoreClaim ==
    /\ pc = "score_loop"
    /\ pos <= Len(subclaims)
    /\ \E probs \in [1..Len(bleached_claims) -> Probs] :
          /\ entail_probs' = probs
          /\ min_entailments' = Append(min_entailments, LeastAnswer(probs))
          /\ weights' = Append(weights, Informativeness(MinEntailment(probs, 1, PGrid)))
    /\ pos' = pos + 1
    /\ UNCHANGED <<entry, pc, outcome, subclaims, bleached_claims, threshold, sim,
                   subclaims_sorted, selected_indices, selected_embeddings, result,
                   failedPair, failedEntailment>>
    /\ UNCHANGED encodings
    /\ UNCHANGED <<decompVars, corefVars, decontextVars>>

\* line 33 raises for one of the bleached claims: neither
\* get_entailment_probability nor lines 30-37 (nor apply_core) catch it, so the
\* call ends with the exception
ScoreClaimRaise ==
    /\ pc = "score_loop"
    /\ pos <= Len(subclaims)
    /\ \E k \in 1..Len(bleached_claims) :
          failedEntailment' = <<bleached_claims[k], subclaims[pos]>>
    /\ outcome' = "raised"
    /\ pc' = "done"
    /\ UNCHANGED <<entry, subclaims, bleached_claims, threshold, entail_probs,
                   min_entailments, sim, weights, subclaims_sorted, pos, selected_indices,
                   selected_embeddings, result, failedPair>>
    /\ UNCHANGED encodings
    /\ UNCHANGED <<decompVars, corefVars, decontextVars>>

\* line 38 when calculate_informativeness_weights was called directly
CalculateReturn ==
    /\ pc = "score_loop"
    /\ pos > Len(subclaims)
    /\ entry = "calculate_informativeness_weights"
    /\ result' = weights
    /\ outcome' = "returned"
    /\ pc' = "done"
    /\ UNCHANGED <<entry, subclaims, bleached_claims, threshold, entail_probs,
                   min_entailments, sim, weights, subclaims_sorted, pos,
                   selected_indices, selected_embeddings, failedPair, failedEntailment>>
    /\ UNCHANGED encodings
    /\ UNCHANGED <<decompVars, corefVars, decontextVars>>

\* line 38 inside apply_core, then line 130: the weights go to the selector
\* and the scorer's locals are gone
ApplyCoreSelect ==
    /\ pc = "score_loop"
    /\ pos > Len(subclaims)
    /\ entry = "apply_core"
    /\ EnterSelect(subclaims, weights)
    /\ entail_probs' = <<>>
    /\ UNCHANGED <<entry, outcome, subclaims, bleached_claims, threshold,
                   min_entailments, sim, weights, result, failedPair, failedEntailment>>
    /\ UNCHANGED <<decompVars, corefVars, decontextVars>>

\* lines 101-113: one iteration of the selector's loop, every similarity computed
SelectCandidate ==
    /\ pc = "select_loop"
    /\ pos <= Len(subclaims_sorted)
    /\ LET cand == subclaims_sorted[pos]
           embedding == Encode(cand.subclaim)
       IN  IF IsUnique(embedding, selected_embeddings, threshold)
           THEN /\ selected_embeddings' = Append(selected_embeddings, embedding)
                /\ selected_indices' = Append(selected_indices, cand.idx)
           ELSE UNCHANGED <<selected_embeddings, selected_indices>>
    /\ pos' = pos + 1
    /\ UNCHANGED <<entry, pc, outcome, subclaims, bleached_claims, threshold, entail_probs,
                   min_entailments, sim, weights, subclaims_sorted, result, failedPair, failedEntailment>>
    /\ encodings' = encodings \o EncodeCalls(subclaims_sorted[pos], selected_indices,
                                           selected_embeddings, threshold)
    /\ UNCHANGED <<decompVars, corefVars, decontextVars>>

\* line 106 raises for one of the pairs the inner loop reaches: nothing in
\* lines 101-113 (or in apply_core) catches it, so the call ends with the exception
SelectCandidateRaise ==
    /\ pc = "select_loop"
    /\ pos <= Len(subclaims_sorted)
    /\ LET embedding == Encode(subclaims_sorted[pos].subclaim)
       IN  \E k \in Compared(embedding, selected_embeddings, threshold) :
              failedPair' = <<embedding, selected_embeddings[k]>>
    /\ outcome' = "raised"
    /\ pc' = "done"
    /\ UNCHANGED <<entry, subclaims, bleached_claims, threshold, entail_probs,
                   min_entailments, sim, weights, subclaims_sorted, pos, selected_indices,
                   selected_embeddings, result, failedEntailment>>
    /\ encodings' = encodings \o EncodeCalls(subclaims_sorted[pos], selected_indices,
                                           selected_embeddings, threshold)
    /\ UNCHANGED <<decompVars, corefVars, decontextVars>>

\* line 115 (and line 131 when called through apply_core)
SelectReturn ==
    /\ pc = "select_loop"
    /\ pos > Len(subclaims_sorted)
    /\ result' = selected_indices
    /\ outcome' = "returned"
    /\ pc' = "done"
    /\ UNCHANGED <<entry, subclaims, bleached_claims, threshold, entail_probs,
                   min_entailments, sim, weights, subclaims_sorted, pos, selected_indices,
                   selected_embeddings, failedPair, failedEntailment>>
    /\ UNCHANGED encodings
    /\ UNCHANGED <<decompVars, corefVars, decontextVars>>

Next ==
    \/ CallSelect
    \/ CallCalculate
    \/ CallApplyCore
    \/ ScoreClaim
    \/ ScoreClaimRaise
    \/ CalculateReturn
    \/ ApplyCoreSelect
    \/ SelectCandidate
    \/ SelectCandidateRaise
    \/ SelectReturn

Spec == Init /\ [][Next]_vars

\* select_core_subclaims called directly
NextSelect ==
    \/ CallSelect
    \/ SelectCandidate
    \/ SelectCandidateRaise
    \/ SelectReturn

SpecSelect == Init /\ [][NextSelect]_vars

(***************************************************************************)
(* split_complex_fact (lines 238-319).  The recursion is kept as the list  *)
(* calls of pending calls: a recursive call made in a loop is put in front *)
(* of it, in the order of the loop, so that the facts are returned in the  *)
(* order the code appends them.                                            *)
(***************************************************************************)
Symbols == {"w", "and", "that", "which", ","}

\* number of symbols of s that are not the plain word
Specials(s) == Cardinality({i \in 1..Len(s) : s[i] # "w"})

\* strings of at most n symbols over the alphabet A
StringsOver(A, n) == UNION {[1..k -> A] : k \in 0..n}

\* lists of at most n non-empty fragments over "w" and "and" with at most b
\* symbols and at most m times "and" together
RECURSIVE FragmentLists(_, _, _)
FragmentLists(b, n, m) ==
    IF n = 0 \/ b = 0 THEN {<<>>}
    ELSE {<<>>} \cup
         UNION {{<<p>> \o rest :
                    rest \in FragmentLists(b - Len(p), n - 1, m - Specials(p))} :
                p \in {q \in StringsOver({"w", "and"}, b) \ {<<>>} : Specials(q) <= m}}

\* strings of n symbols, at most m of them other than "w"
RECURSIVE StringsOfLength(_, _)
StringsOfLength(n, m) ==
    IF n = 0 THEN {<<>>}
    ELSE {Append(e, "w") : e \in StringsOfLength(n - 1, m)} \cup
         (IF m = 0 THEN {}
          ELSE {Append(e, x) : e \in StringsOfLength(n - 1, m - 1),
                               x \in Symbols \ {"w"}})

\* the facts split_complex_fact is called with whose direct object leaves b
\* symbols and m markers to the prepositional fragments
InputFacts(b, m) ==
    {MakeFact(<<"w">>, <<"w">>, d, ps) :
        d \in {e \in StringsOfLength(MaxWords - b, MaxMarkers) :
                   Specials(e) = MaxMarkers - m},
        ps \in FragmentLists(b, MaxPreps, m)}

\* lines 263-270 without the split: every fragment is kept as it is
KeptPrepositionalObjects(ps) == ps

\* lines 263-270: every fragment with ' and ' is replaced by its parts
RECURSIVE NewPrepositionalObjects(_)
NewPrepositionalObjects(ps) ==
    IF ps = <<>> THEN <<>>
    ELSE (IF HasMarker(Head(ps), "and") THEN SplitOn(Head(ps), "and") ELSE <<Head(ps)>>)
         \o NewPrepositionalObjects(Tail(ps))

\* the call that runs now
Running == Head(calls).fact

\* a call made by the running call on the fact g
Call(g) == [fact |-> g, caller |-> Running]

\* which of the four branches of lines 252-317 the running call takes
TakesObjectBranch == HasMarker(Running.direct_object, "and")

TakesPrepositionBranch ==
    /\ ~TakesObjectBranch
    /\ Running.prepositional_objects # <<>>
    /\ NewPrepositionalObjects(Running.prepositional_objects) # Running.prepositional_objects

TakesRelativeBranch ==
    /\ ~TakesObjectBranch
    /\ ~TakesPrepositionBranch
    /\ (HasMarker(Running.direct_object, "that") \/ HasMarker(Running.direct_object, "which"))

\* lines 279-280, 313-314
MainFact ==
    [Running EXCEPT !.direct_object = SplitOn(Running.direct_object, "that")[1]]

\* line 282
RelativeClause ==
    <<"that">> \o JoinWith(Tail(SplitOn(Running.direct_object, "that")), "that")

\* the roles the parser can give a token of the clause below the root verb:
\* subject, object, left modifier of the next subject or object, preposition,
\* object of the preposition before it, or none of these
Roles(word) ==
    IF word = "w" THEN {"other", "nsubj", "obj", "mod", "prep", "pobj"}
    ELSE IF word \in {"that", "which"} THEN {"other", "nsubj", "obj", "mod", "pobj"}
    ELSE {"other"}

\* a caller hands a fact to split_complex_fact
CallSplit ==
    /\ pc = "ready"
    /\ at = "ready"
    /\ \E b \in 0..MaxWords, m \in 0..MaxMarkers :
          \E f \in InputFacts(b, m) :
             /\ fact' = f
             /\ calls' = <<[fact |-> f, caller |-> NoFact]>>
    /\ func' = "split_complex_fact"
    /\ at' = "split"
    /\ atomic_facts' = <<>>
    /\ UNCHANGED <<relative, pass, first_output>>
    /\ UNCHANGED extractVars
    /\ UNCHANGED <<coreVars, corefVars, decontextVars>>

\* lines 252-258: one call per part of the direct object
SplitObject ==
    /\ at = "split"
    /\ calls # <<>>
    /\ TakesObjectBranch
    /\ LET parts == SplitOn(Running.direct_object, "and")
       IN  calls' = [k \in 1..Len(parts) |->
                        Call([Running EXCEPT !.direct_object = parts[k]])]
                    \o Tail(calls)
    /\ UNCHANGED <<func, at, fact, atomic_facts, relative, pass, first_output>>
    /\ UNCHANGED extractVars
    /\ UNCHANGED <<coreVars, corefVars, decontextVars>>

\* lines 261-275: one call on the fact with the new list of fragments
SplitPrepositions ==
    /\ at = "split"
    /\ calls # <<>>
    /\ TakesPrepositionBranch
    /\ calls' = <<Call([Running EXCEPT !.prepositional_objects =
                            NewPrepositionalObjects(Running.prepositional_objects)])>>
                \o Tail(calls)
    /\ UNCHANGED <<func, at, fact, atomic_facts, relative, pass, first_output>>
    /\ UNCHANGED extractVars
    /\ UNCHANGED <<coreVars, corefVars, decontextVars>>

\* lines 278-285, 313-315: the direct object holds ' that ' or ' which '.
\* With one part only, or with no root verb in the parse of the clause, the
\* call returns the main fact alone; else the children of the root are read.
SplitRelative ==
    /\ at = "split"
    /\ calls # <<>>
    /\ TakesRelativeBranch
    /\ \E root \in 0..Len(RelativeClause) :
          /\ root > 0 =>
                /\ Len(SplitOn(Running.direct_object, "that")) > 1
                /\ RelativeClause[root] = "w"
          /\ IF root = 0
             THEN /\ atomic_facts' = Append(atomic_facts, MainFact)
                  /\ calls' = Tail(calls)
                  /\ UNCHANGED <<at, relative>>
             ELSE /\ relative' = [NoParse EXCEPT !.clause = RelativeClause,
                                                 !.root = root, !.pos = 1]
                  /\ at' = "parse"
                  /\ UNCHANGED <<calls, atomic_facts>>
    /\ UNCHANGED <<func, fact, pass, first_output>>
    /\ UNCHANGED extractVars
    /\ UNCHANGED <<coreVars, corefVars, decontextVars>>

\* lines 287-304: the parser's answer for the next token of the clause
ParseChild ==
    /\ at = "parse"
    /\ relative.pos <= Len(relative.clause)
    /\ LET child == relative.clause[relative.pos]
           phrase == Append(relative.mods, child)
           next == [relative EXCEPT !.pos = relative.pos + 1, !.mods = <<>>]
       IN  IF relative.pos = relative.root
           THEN relative' = [next EXCEPT !.prep = <<>>]
           ELSE \E role \in Roles(child) :
                   /\ role = "nsubj" => relative.subject = <<>>
                   /\ role = "pobj" => relative.prep # <<>>
                   /\ relative' =
                         CASE role = "nsubj" -> [next EXCEPT !.subject = phrase, !.prep = <<>>]
                           [] role = "obj" ->
                                 [next EXCEPT !.directs = Append(relative.directs, phrase),
                                              !.prep = <<>>]
                           [] role = "mod" -> [next EXCEPT !.mods = phrase]
                           [] role = "prep" -> [next EXCEPT !.prep = <<child>>]
                           [] role = "pobj" ->
                                 [next EXCEPT !.preps = Append(relative.preps,
                                                               relative.prep \o phrase),
                                              !.prep = <<>>]
                           [] OTHER -> [next EXCEPT !.prep = <<>>]
    /\ UNCHANGED <<func, at, fact, calls, atomic_facts, pass, first_output>>
    /\ UNCHANGED extractVars
    /\ UNCHANGED <<coreVars, corefVars, decontextVars>>

\* lines 305-312
RelativeFact ==
    MakeFact(StripCommas(relative.subject), <<relative.clause[relative.root]>>,
             JoinComma(relative.directs), relative.preps)

\* lines 305-315: the relative fact, if the root has a subject, then the main fact
EmitRelative ==
    /\ at = "parse"
    /\ relative.pos > Len(relative.clause)
    /\ atomic_facts' = (IF relative.subject # <<>>
                        THEN Append(atomic_facts, RelativeFact)
                        ELSE atomic_facts) \o <<MainFact>>
    /\ calls' = Tail(calls)
    /\ relative' = NoParse
    /\ at' = "split"
    /\ UNCHANGED <<func, fact, pass, first_output>>
    /\ UNCHANGED extractVars
    /\ UNCHANGED <<coreVars, corefVars, decontextVars>>

\* lines 316-317
KeepFact ==
    /\ at = "split"
    /\ calls # <<>>
    /\ ~TakesObjectBranch
    /\ ~TakesPrepositionBranch
    /\ ~TakesRelativeBranch
    /\ atomic_facts' = Append(atomic_facts, Running)
    /\ calls' = Tail(calls)
    /\ UNCHANGED <<func, at, fact, relative, pass, first_output>>
    /\ UNCHANGED extractVars
    /\ UNCHANGED <<coreVars, corefVars, decontextVars>>

\* line 319 of the outermost call
SplitReturn ==
    /\ func = "split_complex_fact"
    /\ at = "split"
    /\ calls = <<>>
    /\ at' = IF pass = 1 THEN "returned" ELSE "done"
    /\ UNCHANGED <<func, fact, calls, atomic_facts, relative, pass, first_output>>
    /\ UNCHANGED extractVars
    /\ UNCHANGED <<coreVars, corefVars, decontextVars>>

\* the caller hands every returned fact to split_complex_fact again and
\* collects what the calls return, in order
CallSplitAgain ==
    /\ func = "split_complex_fact"
    /\ at = "returned"
    /\ first_output' = atomic_facts
    /\ calls' = [k \in 1..Len(atomic_facts) |-> [fact |-> atomic_facts[k], caller |-> NoFact]]
    /\ atomic_facts' = <<>>
    /\ pass' = 2
    /\ at' = "split"
    /\ UNCHANGED <<func, fact, relative>>
    /\ UNCHANGED extractVars
    /\ UNCHANGED <<coreVars, corefVars, decontextVars>>

(***************************************************************************)
(* decompose_sentence (lines 105-236).  The parse of the resolved text is  *)
(* the part of the dependency tree the code looks at: per sentence the     *)
(* tokens with pos VERB and dep ROOT or conj, in order, the root first,    *)
(* each with those of its children the code reads.  A noun is a token with *)
(* its left modifiers (compound, amod, det, appos) and its prep children,  *)
(* a preposition is a token with its pobj child, if it has one of the      *)
(* right pos.  A sentence with no root verb is the empty list of verbs.    *)
(* The size of a parse is its number of tokens, and all tokens but verbs   *)
(* and subjects are the word "w".                                          *)
(***************************************************************************)
RECURSIVE NounSize(_), PrepSize(_)
NounSize(n) == Len(n.lefts) + 1 + (IF n.preps = <<>> THEN 0 ELSE PrepSize(n.preps[1]))
PrepSize(p) == 1 + (IF p.pobj = <<>> THEN 0 ELSE NounSize(p.pobj[1]))

\* nouns and prepositions of at most b tokens; a noun has at most one left
\* modifier and one preposition below it
RECURSIVE Nouns(_), Preps(_)
Nouns(b) ==
    IF b < 1 THEN {}
    ELSE UNION {{[lefts |-> l, text |-> "w", preps |-> ps] :
                    ps \in {<<>>} \cup {<<p>> : p \in Preps(b - 1 - Len(l))}} :
                l \in (IF b > 1 THEN {<<>>, <<"w">>} ELSE {<<>>})}
Preps(b) ==
    IF b < 1 THEN {}
    ELSE {[text |-> "w", pobj |-> <<>>]} \cup {[text |-> "w", pobj |-> <<n>>] : n \in Nouns(b - 1)}

RECURSIVE SumNounSize(_)
SumNounSize(ns) == IF ns = <<>> THEN 0 ELSE NounSize(Head(ns)) + SumNounSize(Tail(ns))

RECURSIVE SumPrepSize(_)
SumPrepSize(ps) == IF ps = <<>> THEN 0 ELSE PrepSize(Head(ps)) + SumPrepSize(Tail(ps))

\* lists of nouns, and of prepositions, of at most b tokens together
RECURSIVE NounLists(_)
NounLists(b) ==
    {<<>>} \cup UNION {{<<n>> \o rest : rest \in NounLists(b - NounSize(n))} : n \in Nouns(b)}

RECURSIVE PrepLists(_)
PrepLists(b) ==
    {<<>>} \cup UNION {{<<p>> \o rest : rest \in PrepLists(b - PrepSize(p))} : p \in Preps(b)}

\* the subject child of a verb: none, or a token with at most one left modifier
Subjects(b) ==
    {<<>>} \cup (IF b >= 1 THEN {<<[lefts |-> <<>>]>>} ELSE {})
           \cup (IF b >= 2 THEN {<<[lefts |-> <<"w">>]>>} ELSE {})

\* number of tokens of a subject child
SubjectSize(sb) == IF sb = <<>> THEN 0 ELSE 1 + Len(sb[1].lefts)

\* number of tokens of the verb of a relative clause with its children
RelativeSize(r) == 1 + SubjectSize(r.subject) + SumNounSize(r.objects) + SumPrepSize(r.preps)

\* the verb of a relative clause with the children decompose_relative_clause reads
RelativeVerbs(b) ==
    IF b < 1 THEN {}
    ELSE {r \in [subject : Subjects(b - 1), objects : NounLists(b - 1),
                 preps : PrepLists(b - 1)] : RelativeSize(r) <= b}

\* number of tokens of a verb with its children
VerbSize(v) ==
    1 + Len(v.aux) + SubjectSize(v.subject) + Len(v.modifiers)
      + SumNounSize(v.objects) + SumPrepSize(v.preps)
      + (IF v.relcls = <<>> THEN 0 ELSE RelativeSize(v.relcls[1]))

\* a verb of at most b tokens with its children: aux/auxpass, the first
\* nsubj/nsubjpass, its own compound/amod/det/appos children, objects,
\* prepositions and at most one relcl
Verbs(b) ==
    IF b < 1 THEN {}
    ELSE {v \in [aux : {<<>>, <<"w">>}, subject : Subjects(b - 1),
                 modifiers : {<<>>, <<"w">>}, objects : NounLists(b - 1),
                 preps : PrepLists(b - 1),
                 relcls : {<<>>} \cup {<<r>> : r \in RelativeVerbs(b - 1)}] :
              VerbSize(v) <= b}

\* sentences with a root verb: the root and its conjunct verbs
RECURSIVE VerbLists(_)
VerbLists(b) ==
    {<<>>} \cup UNION {{<<v>> \o rest : rest \in VerbLists(b - VerbSize(v))} : v \in Verbs(b)}

\* number of tokens of a sentence; one without a root verb counts one token
RECURSIVE SentenceSize(_)
SentenceSize(vs) ==
    IF vs = <<>> THEN 1
    ELSE IF Len(vs) = 1 THEN VerbSize(vs[1])
    ELSE VerbSize(Head(vs)) + SentenceSize(Tail(vs))

\* parsed texts of at most b tokens
RECURSIVE DocsUpTo(_)
DocsUpTo(b) ==
    IF b < 1 THEN {<<>>}
    ELSE {<<>>} \cup UNION {{<<vs>> \o rest : rest \in DocsUpTo(b - SentenceSize(vs))} :
                               vs \in VerbLists(b)}

Docs == DocsUpTo(MaxTokens)

\* texts of the verbs and of their subjects, by the place of the verb in the parse
VerbNames == <<"v1", "v2", "v3", "v4", "v5", "v6", "v7", "v8">>
SubjectNames == <<"s1", "s2", "s3", "s4", "s5", "s6", "s7", "s8">>

\* number of verbs in the sentences before sentence i
RECURSIVE VerbsBefore(_, _)
VerbsBefore(doc, i) == IF i <= 1 THEN 0 ELSE VerbsBefore(doc, i - 1) + Len(doc[i - 1])

\* token.text of verb k of sentence i, and the text of its subject child
VerbText(doc, i, k) == VerbNames[VerbsBefore(doc, i) + k]
SubjectText(doc, i, k) == SubjectNames[VerbsBefore(doc, i) + k]

\* lines 64-89
RECURSIVE GetFullObject(_)
GetFullObject(n) ==
    n.lefts \o <<n.text>>
    \o (IF n.preps = <<>> \/ n.preps[1].pobj = <<>> THEN <<>>
        ELSE <<n.preps[1].text>> \o GetFullObject(n.preps[1].pobj[1]))

\* lines 150, 181, 225
DirectObjects(ns) == [k \in 1..Len(ns) |-> GetFullObject(ns[k])]

\* lines 151-153, 182, 226: a preposition with no pobj of the right pos gives nothing
RECURSIVE PrepositionalObjects(_)
PrepositionalObjects(ps) ==
    IF ps = <<>> THEN <<>>
    ELSE (IF Head(ps).pobj = <<>> THEN <<>>
          ELSE <<<<Head(ps).text>> \o GetFullObject(Head(ps).pobj[1])>>)
         \o PrepositionalObjects(Tail(ps))

\* lines 204-236: the fact of a relative clause, as a list of none or one
DecomposeRelativeClause(r) ==
    IF r.subject = <<>> THEN <<>>
    ELSE LET relative_subject == r.subject[1].lefts \o <<"w">>
             relative_fact == MakeFact(StripCommas(relative_subject), <<"w">>,
                                       JoinComma(DirectObjects(r.objects)),
                                       PrepositionalObjects(r.preps))
         IN  IF relative_fact.subject # <<>> /\ relative_fact.verb # <<>>
             THEN <<relative_fact>> ELSE <<>>

\* lines 136-138, 177-179
FullVerb(doc, i, k) == doc[i][k].aux \o <<VerbText(doc, i, k)>>

\* lines 140-145: the subject child with the modifiers among the verb's
\* children, else the subject carried over
SubjectOf(doc, i, k, carried) ==
    IF doc[i][k].subject # <<>>
    THEN doc[i][k].modifiers \o <<SubjectText(doc, i, k)>>
    ELSE carried

\* lines 164-169 and 185-190 without the tests of lines 163, 170, 184, 191
UngatedFact(doc, i, k, subject) ==
    <<MakeFact(StripCommas(subject), FullVerb(doc, i, k),
               JoinComma(DirectObjects(doc[i][k].objects)),
               PrepositionalObjects(doc[i][k].preps))>>

\* lines 163-171 and 184-192: the fact of verb k of sentence i for the subject
\* given, as a list of none or one
GatedFact(doc, i, k, subject) ==
    IF subject # <<>> /\ FullVerb(doc, i, k) # <<>>
    THEN LET f == MakeFact(StripCommas(subject), FullVerb(doc, i, k),
                           JoinComma(DirectObjects(doc[i][k].objects)),
                           PrepositionalObjects(doc[i][k].preps))
         IN  IF f.subject # <<>> /\ f.verb # <<>> THEN <<f>> ELSE <<>>
    ELSE <<>>

\* lines 174-192: the facts of the conjuncts of verb k, the verbs j # k of the
\* sentence from j on
RECURSIVE ConjunctFacts(_, _, _, _, _)
ConjunctFacts(doc, i, k, j, subject) ==
    IF j > Len(doc[i]) THEN <<>>
    ELSE (IF j = k THEN <<>> ELSE GatedFact(doc, i, j, subject))
         \o ConjunctFacts(doc, i, k, j + 1, subject)

\* lines 321-342
RECURSIVE Concat(_)
Concat(ss) == IF ss = <<>> THEN <<>> ELSE Head(ss) \o Concat(Tail(ss))

FormatFact(f) == f.subject \o f.verb \o f.direct_object \o Concat(f.prepositional_objects)

\* line 200: the facts from position i on that have a subject and a verb,
\* each with its number
RECURSIVE NumberedFrom(_, _)
NumberedFrom(fs, i) ==
    IF i > Len(fs) THEN <<>>
    ELSE (IF fs[i].subject # <<>> /\ fs[i].verb # <<>>
          THEN <<[number |-> i, text |-> FormatFact(fs[i])]>> ELSE <<>>)
         \o NumberedFrom(fs, i + 1)

\* pipeline.py lines 64-68: the text has been split into sentences
CallPipeline ==
    /\ pc = "ready"
    /\ at = "ready"
    /\ func' = "run_pipeline"
    /\ \E n \in 1..MaxSentences : sentences' = n
    /\ sentence' = 1
    /\ all_subclaims' = 0
    /\ at' = "next_sentence"
    /\ UNCHANGED <<fact, calls, atomic_facts, relative, pass, first_output, failed,
                   resolved_doc, sent, token, facts, current_subject, numbered_facts>>
    /\ UNCHANGED <<coreVars, corefVars, decontextVars>>

\* pipeline.py line 70, lines 117-126: the call of decompose_sentence for the
\* next sentence, resolution and parse succeed
CallDecompose ==
    /\ at = "next_sentence"
    /\ sentence <= sentences
    /\ \E doc \in Docs : resolved_doc' = doc
    /\ facts' = <<>>
    /\ current_subject' = <<>>
    /\ sent' = 1
    /\ token' = 1
    /\ at' = "extract"
    /\ UNCHANGED <<func, fact, calls, atomic_facts, relative, pass, first_output,
                   sentences, sentence, all_subclaims, failed, numbered_facts>>
    /\ UNCHANGED <<coreVars, corefVars, decontextVars>>

\* lines 119-120 with no handler: the exception leaves decompose_sentence
Unhandled == "raised"

\* lines 121-123: where an exception of lines 119-120 leaves the call: the
\* handler returns, the call is over
AfterException == "decomposed"

\* lines 117-123: long_coref_resolution or nlp raises, the handler returns []
DecomposeRaises ==
    /\ at = "next_sentence"
    /\ sentence <= sentences
    /\ failed' = failed \cup {sentence}
    /\ numbered_facts' = <<>>
    /\ at' = AfterException
    /\ UNCHANGED <<func, fact, calls, atomic_facts, relative, pass, first_output,
                   sentences, sentence, all_subclaims, resolved_doc, sent, token, facts,
                   current_subject>>
    /\ UNCHANGED <<coreVars, corefVars, decontextVars>>

\* lines 128-132: a sentence of the parse with no root verb is skipped
SkipSentence ==
    /\ at = "extract"
    /\ sent <= Len(resolved_doc)
    /\ resolved_doc[sent] = <<>>
    /\ sent' = sent + 1
    /\ token' = 1
    /\ UNCHANGED <<func, at, fact, calls, atomic_facts, relative, pass, first_output,
                   sentences, sentence, all_subclaims, failed, resolved_doc, facts,
                   current_subject, numbered_facts>>
    /\ UNCHANGED <<coreVars, corefVars, decontextVars>>

\* lines 134-192: the body of the loop for the next verb of the sentence
ExtractVerb ==
    /\ at = "extract"
    /\ sent <= Len(resolved_doc)
    /\ token <= Len(resolved_doc[sent])
    /\ LET v == resolved_doc[sent][token]
           subject == SubjectOf(resolved_doc, sent, token, current_subject)
       IN  /\ current_subject' = IF subject # <<>> THEN subject ELSE current_subject
           /\ facts' = facts
                       \o (IF v.relcls = <<>> THEN <<>>
                           ELSE DecomposeRelativeClause(v.relcls[1]))
                       \o GatedFact(resolved_doc, sent, token, subject)
                       \o ConjunctFacts(resolved_doc, sent, token, 1, subject)
    /\ IF token < Len(resolved_doc[sent])
       THEN token' = token + 1 /\ sent' = sent
       ELSE token' = 1 /\ sent' = sent + 1
    /\ UNCHANGED <<func, at, fact, calls, atomic_facts, relative, pass, first_output,
                   sentences, sentence, all_subclaims, failed, resolved_doc,
                   numbered_facts>>
    /\ UNCHANGED <<coreVars, corefVars, decontextVars>>

\* lines 194-197: every fact goes through split_complex_fact, in order
PostProcess ==
    /\ at = "extract"
    /\ sent > Len(resolved_doc)
    /\ calls' = [k \in 1..Len(facts) |-> [fact |-> facts[k], caller |-> NoFact]]
    /\ atomic_facts' = <<>>
    /\ at' = "split"
    /\ UNCHANGED <<func, fact, relative, pass, first_output>>
    /\ UNCHANGED extractVars
    /\ UNCHANGED <<coreVars, corefVars, decontextVars>>

\* lines 199-202
DecomposeReturn ==
    /\ func = "run_pipeline"
    /\ at = "split"
    /\ calls = <<>>
    /\ numbered_facts' = NumberedFrom(atomic_facts, 1)
    /\ at' = "decomposed"
    /\ UNCHANGED <<func, fact, calls, atomic_facts, relative, pass, first_output,
                   sentences, sentence, all_subclaims, failed, resolved_doc, sent, token,
                   facts, current_subject>>
    /\ UNCHANGED <<coreVars, corefVars, decontextVars>>

\* pipeline.py lines 71-74: the subclaims of the sentence are collected (of
\* all_subclaims the length is kept) and the loop goes on; the locals of
\* decompose_sentence are gone
CollectSubclaims ==
    /\ at = "decomposed"
    /\ all_subclaims' = all_subclaims + Len(numbered_facts)
    /\ sentence' = sentence + 1
    /\ at' = IF sentence < sentences THEN "next_sentence" ELSE "done"
    /\ resolved_doc' = <<>>
    /\ sent' = 1
    /\ token' = 1
    /\ facts' = <<>>
    /\ current_subject' = <<>>
    /\ numbered_facts' = <<>>
    /\ atomic_facts' = <<>>
    /\ UNCHANGED <<func, fact, calls, relative, pass, first_output, sentences, failed>>
    /\ UNCHANGED <<coreVars, corefVars, decontextVars>>

NextDecomp ==
    \/ CallSplit
    \/ SplitObject
    \/ SplitPrepositions
    \/ SplitRelative
    \/ ParseChild
    \/ EmitRelative
    \/ KeepFact
    \/ SplitReturn
    \/ CallSplitAgain
    \/ CallPipeline
    \/ CallDecompose
    \/ DecomposeRaises
    \/ SkipSentence
    \/ ExtractVerb
    \/ PostProcess
    \/ DecomposeReturn
    \/ CollectSubclaims

SpecDecomp == Init /\ [][NextDecomp]_vars

(***************************************************************************)
(* long_coref_resolution (lines 10-62).  A text is the list of the token   *)
(* counts of its sentences; a chunk is the list of the indices of the      *)
(* sentences joined into it, the empty list for the empty string.          *)
(***************************************************************************)
\* line 33
max_length == 512

\* line 38: the token counts a sentence can have: short ones, two that fill a
\* chunk to one token below the limit together, and one at the limit
SentenceLengths == {1, 200, 311, 512}

\* lines 29-36: the call; the text is split into its sentences
CallCoref ==
    /\ pc = "ready"
    /\ at = "ready"
    /\ coref_at = "idle"
    /\ decontext_at = "idle"
    /\ \E n \in 0..MaxCorefSentences :
          \E ls \in [1..n -> SentenceLengths] : sentence_lengths' = ls
    /\ reading' = 1
    /\ chunks' = <<>>
    /\ current_chunk' = <<>>
    /\ current_length' = 0
    /\ coref_at' = "chunking"
    /\ UNCHANGED <<queried, resolved_text>>
    /\ UNCHANGED <<coreVars, decompVars, decontextVars>>

\* lines 37-45: one iteration of the loop over the sentences
ChunkSentence ==
    /\ coref_at = "chunking"
    /\ reading <= Len(sentence_lengths)
    /\ LET sentence_length == sentence_lengths[reading]
       IN  IF current_length + sentence_length < max_length
           THEN /\ current_chunk' = Append(current_chunk, reading)
                /\ current_length' = current_length + sentence_length
                /\ UNCHANGED chunks
           ELSE /\ chunks' = Append(chunks, current_chunk)
                /\ current_chunk' = <<reading>>
                /\ current_length' = sentence_length
    /\ reading' = reading + 1
    /\ UNCHANGED <<coref_at, sentence_lengths, queried, resolved_text>>
    /\ UNCHANGED <<coreVars, decompVars, decontextVars>>

\* lines 46-49: the last chunk, then the loop over the chunks starts
CloseChunks ==
    /\ coref_at = "chunking"
    /\ reading > Len(sentence_lengths)
    /\ chunks' = IF current_chunk # <<>> THEN Append(chunks, current_chunk) ELSE chunks
    /\ queried' = 0
    /\ resolved_text' = <<>>
    /\ coref_at' = "querying"
    /\ UNCHANGED <<sentence_lengths, reading, current_chunk, current_length>>
    /\ UNCHANGED <<coreVars, decompVars, decontextVars>>

\* lines 50-60: the next chunk is sent; the answer holds an error, or the
\* resolved text, or neither, and the resolved text or the chunk is appended
QueryChunk ==
    /\ coref_at = "querying"
    /\ queried < Len(chunks)
    /\ \E output \in {"error", "resolved_text", "neither"} :
          resolved_text' = Append(resolved_text,
                                  [chunk |-> queried + 1,
                                   resolved |-> (output = "resolved_text")])
    /\ queried' = queried + 1
    /\ UNCHANGED <<coref_at, sentence_lengths, reading, chunks, current_chunk,
                   current_length>>
    /\ UNCHANGED <<coreVars, decompVars, decontextVars>>

\* lines 25-26: the request for the next chunk raises (timeout, no JSON in the
\* answer); long_coref_resolution has no handler
QueryRaises ==
    /\ coref_at = "querying"
    /\ queried < Len(chunks)
    /\ queried' = queried + 1
    /\ coref_at' = "raised"
    /\ UNCHANGED <<sentence_lengths, reading, chunks, current_chunk, current_length,
                   resolved_text>>
    /\ UNCHANGED <<coreVars, decompVars, decontextVars>>

\* line 62
CorefReturn ==
    /\ coref_at = "querying"
    /\ queried = Len(chunks)
    /\ coref_at' = "returned"
    /\ UNCHANGED <<sentence_lengths, reading, chunks, current_chunk, current_length,
                   queried, resolved_text>>
    /\ UNCHANGED <<coreVars, decompVars, decontextVars>>

NextCoref ==
    \/ CallCoref
    \/ ChunkSentence
    \/ CloseChunks
    \/ QueryChunk
    \/ QueryRaises
    \/ CorefReturn

SpecCoref == Init /\ [][NextCoref]_vars

(***************************************************************************)
(* decontextualization/decontext_module.py: decontextualize_with_llama3    *)
(* under its decorator retry(stop=stop_after_attempt(3), ...).  Subclaims, *)
(* contexts and the answers of the language model are texts 1..MaxTexts.   *)
(* The decorator calls the body; if the body raises, it calls it again     *)
(* until the attempts are used up and then raises RetryError; if the body  *)
(* returns, it returns that value.                                         *)
(***************************************************************************)
\* line 11: stop_after_attempt(3)
StopAfterAttempt == 3

\* lines 49-53: what a request can come to: requests.post raises, the answer
\* has an error status, its body is no JSON, the JSON has no choices, or it
\* has a choice with a message
Responses ==
    {[kind |-> k, content |-> 0] :
        k \in {"transport_error", "http_error", "no_json", "no_choices"}}
    \cup {[kind |-> "message", content |-> c] : c \in 1..MaxTexts}

\* lines 48-68: how the body ends for the answer r: it returns the content of
\* the message, or the subclaim (lines 56-58 and every handler of lines 60-68)
BodyOutcome(subclaim, r) ==
    IF r.kind = "message"
    THEN [kind |-> "returned_content", text |-> r.content]
    ELSE [kind |-> "returned_subclaim", text |-> subclaim]

\* lines 11-12: a caller invokes decontextualize_with_llama3(subclaim, context)
CallDecontextualize ==
    /\ pc = "ready"
    /\ at = "ready"
    /\ coref_at = "idle"
    /\ decontext_at = "idle"
    /\ \E sc \in 1..MaxTexts, cx \in 1..MaxTexts :
          /\ arg_subclaim' = sc
          /\ arg_context' = cx
    /\ attempt_number' = 1
    /\ decontext_at' = "attempt"
    /\ UNCHANGED <<response, attempt_outcome, returned_value>>
    /\ UNCHANGED <<coreVars, decompVars, corefVars>>

\* lines 23-68: one run of the body
AttemptRequest ==
    /\ decontext_at = "attempt"
    /\ \E r \in Responses :
          /\ response' = r
          /\ attempt_outcome' = BodyOutcome(arg_subclaim, r)
    /\ decontext_at' = "attempted"
    /\ UNCHANGED <<arg_subclaim, arg_context, attempt_number, returned_value>>
    /\ UNCHANGED <<coreVars, decompVars, corefVars>>

\* line 11: the decorator after a run of the body
AfterAttempt ==
    /\ decontext_at = "attempted"
    /\ IF attempt_outcome.kind \in {"returned_content", "returned_subclaim"}
       THEN /\ returned_value' = attempt_outcome
            /\ decontext_at' = "returned"
            /\ UNCHANGED attempt_number
       ELSE IF attempt_number < StopAfterAttempt
       THEN /\ attempt_number' = attempt_number + 1
            /\ decontext_at' = "attempt"
            /\ UNCHANGED returned_value
       ELSE /\ returned_value' = [kind |-> "RetryError", text |-> 0]
            /\ decontext_at' = "raised"
            /\ UNCHANGED attempt_number
    /\ UNCHANGED <<arg_subclaim, arg_context, response, attempt_outcome>>
    /\ UNCHANGED <<coreVars, decompVars, corefVars>>

NextDecontext ==
    \/ CallDecontextualize
    \/ AttemptRequest
    \/ AfterAttempt

SpecDecontext == Init /\ [][NextDecontext]_vars

\* ------------------------------------------------- vocabulary of the properties
Selectors == {"select_core_subclaims", "apply_core"}
Scorers == {"calculate_informativeness_weights", "apply_core"}

\* the selector has returned its list
SelectorReturned == entry \in Selectors /\ outcome = "returned"

\* the scorer has returned its list (to the caller or to apply_core)
ScoringFinished == entry \in Scorers /\ pc # "score_loop" /\ failedEntailment = <<>>

NumClaims == Len(subclaims)
Indices == 0..(NumClaims - 1)
Selected == Range(result)

WeightOf(i) == weights[i + 1]
SimOf(i, j) == CosSim(Encode(subclaims[i + 1]), Encode(subclaims[j + 1]))

\* i is ranked before j: larger weight, or equal weight and earlier in the input
RankedBefore(i, j) ==
    WeightOf(i) > WeightOf(j) \/ (WeightOf(i) = WeightOf(j) /\ i < j)

\* the least answer the entailment model gave for the subclaim at position c
TrueMin(c) == min_entailments[c]

\* a subclaim has just been scored and the model's answers for it are at hand
JustScored == entry \in Scorers /\ pc = "score_loop" /\ pos > 1

\* ------------------------------------------------------------------ C1
\* C1: any two distinct positions of the list returned by the selector hold
\* claims whose similarity is at most the threshold.
PairwiseDissimilar ==
    SelectorReturned =>
        \A a, b \in 1..Len(result) :
            a # b => SimOf(result[a], result[b]) <= threshold

\* a run that accepted several claims, rejected one, and compared real values
PairwiseDissimilarWitness ==
    /\ SelectorReturned
    /\ Len(result) >= 2
    /\ Len(result) < NumClaims
    /\ \E a, b \in 1..Len(result) : a # b /\ SimOf(result[a], result[b]) = threshold

\* ------------------------------------------------------------------ C2
\* C2 as stated: of two claims more similar than the threshold, both are never
\* selected and the lower-weighted one is never selected.
HigherWeightedSurvives ==
    SelectorReturned =>
        \A i, j \in Indices :
            (i # j /\ SimOf(i, j) > threshold) =>
                /\ ~(i \in Selected /\ j \in Selected)
                /\ (WeightOf(j) < WeightOf(i) => j \notin Selected)

\* C2 amended: of two claims more similar than the threshold, both are never
\* selected; the lower-weighted one is selected only when the higher-weighted
\* one was dropped, being more similar than the threshold to a selected claim
\* ranked before it.
LowerSurvivesOnlyIfHigherDropped ==
    SelectorReturned =>
        \A i, j \in Indices :
            (i # j /\ SimOf(i, j) > threshold) =>
                /\ ~(i \in Selected /\ j \in Selected)
                /\ (WeightOf(j) < WeightOf(i) /\ j \in Selected) =>
                      \E k \in Selected : RankedBefore(k, i) /\ SimOf(k, i) > threshold

\* the lower-weighted claim of a similar pair is in the output
LowerSurvivesWitness ==
    /\ SelectorReturned
    /\ \E i, j \in Indices :
          /\ SimOf(i, j) > threshold
          /\ WeightOf(j) < WeightOf(i)
          /\ j \in Selected

\* ------------------------------------------------------------------ C3
HighestIdx ==
    CHOOSE i \in Indices : \A j \in Indices : j # i => RankedBefore(i, j)

\* C3: for a non-empty input the returned list contains the index of the
\* highest-weight claim, the earliest one when the maximum weight is shared.
HighestWeightSelected ==
    (SelectorReturned /\ NumClaims >= 1) => HighestIdx \in Selected

\* the maximum weight is shared with a later claim that is too similar to it
HighestWeightSelectedWitness ==
    /\ SelectorReturned
    /\ \E j \in Indices :
          /\ j # HighestIdx
          /\ WeightOf(j) = WeightOf(HighestIdx)
          /\ SimOf(j, HighestIdx) > threshold
    /\ HighestIdx \in Selected

\* ------------------------------------------------------------------ C4
\* C4: the selector walks the claims by descending weight, equal weights in
\* input order, and the returned list keeps that order.
DescendingStableOrder ==
    /\ (entry \in Selectors /\ pc \in {"select_loop", "done"} /\ failedEntailment = <<>>) =>
          /\ {subclaims_sorted[a].idx : a \in 1..Len(subclaims_sorted)} = Indices
          /\ Len(subclaims_sorted) = NumClaims
          /\ \A a, b \in 1..Len(subclaims_sorted) :
                a < b => RankedBefore(subclaims_sorted[a].idx, subclaims_sorted[b].idx)
          /\ \A a \in 1..Len(selected_indices) :
                \E b \in 1..(pos - 1) : subclaims_sorted[b].idx = selected_indices[a]
    /\ SelectorReturned =>
          \A a, b \in 1..Len(result) : a < b => RankedBefore(result[a], result[b])

\* a returned list with a tie kept in input order behind a heavier claim that
\* came later in the input
DescendingStableOrderWitness ==
    /\ SelectorReturned
    /\ Len(result) >= 3
    /\ WeightOf(result[1]) > WeightOf(result[2])
    /\ WeightOf(result[2]) = WeightOf(result[3])
    /\ result[1] > result[2]

\* ------------------------------------------------------------------ C5
\* C5: the list returned by select_core_subclaims and by apply_core holds only
\* indices 0..N-1 of the input, each at most once.
ValidIndices ==
    SelectorReturned =>
        /\ \A a \in 1..Len(result) : result[a] \in Indices
        /\ \A a, b \in 1..Len(result) : a # b => result[a] # result[b]

\* apply_core returned every index of a list of several claims
ValidIndicesWitness ==
    /\ entry = "apply_core"
    /\ outcome = "returned"
    /\ NumClaims >= 2
    /\ Len(result) = NumClaims

\* ------------------------------------------------------------------ C6
\* C6 as stated: a claim with a strictly smaller minimum entailment
\* probability, zero included, has a strictly larger weight.
WeightMonotone ==
    (ScoringFinished /\ Len(bleached_claims) >= 1) =>
        \A ca, cb \in 1..NumClaims :
            TrueMin(ca) < TrueMin(cb) => weights[ca] > weights[cb]

\* C6 amended: a claim with a strictly smaller minimum entailment probability
\* that is greater than zero has a strictly larger weight.
WeightMonotonePositive ==
    (ScoringFinished /\ Len(bleached_claims) >= 1) =>
        \A ca, cb \in 1..NumClaims :
            (0 < TrueMin(ca) /\ TrueMin(ca) < TrueMin(cb)) => weights[ca] > weights[cb]

\* two scored claims with different positive minima over several bleached claims
WeightMonotonePositiveWitness ==
    /\ ScoringFinished
    /\ Len(bleached_claims) >= 2
    /\ \E ca, cb \in 1..NumClaims :
          /\ 0 < TrueMin(ca)
          /\ TrueMin(ca) < TrueMin(cb)
          /\ weights[ca] > weights[cb]

\* ------------------------------------------------------------------ C7
\* C7: a claim whose minimum entailment probability is exactly 0 gets weight
\* exactly 0, and the scorer returns normally.
WeightFloor ==
    /\ (JustScored /\ \E b \in 1..Len(entail_probs) : entail_probs[b] = 0) =>
          weights[pos - 1] = 0
    /\ (ScoringFinished /\ Len(bleached_claims) >= 1) =>
          \A c \in 1..NumClaims : TrueMin(c) = 0 => weights[c] = 0
    /\ (entry = "calculate_informativeness_weights" /\ pc = "done"
                                                     /\ failedEntailment = <<>>) =>
          outcome = "returned"

\* the scorer returned a weight for a claim that one bleached claim entails
\* with probability 0 and another with a positive probability
WeightFloorWitness ==
    /\ entry = "calculate_informativeness_weights"
    /\ outcome = "returned"
    /\ \E b \in 1..Len(entail_probs) : entail_probs[b] = 0
    /\ \E b \in 1..Len(entail_probs) : entail_probs[b] > 0
    /\ result[NumClaims] = 0

\* ------------------------------------------------------------------ C8
\* C8: the scorer returns one weight per claim, aligned to the input, and with
\* at least one bleached claim and answers in (0, 1] the weight of a claim is
\* -ln of the least answer over all bleached claims.
WeightIsNegLogOfMin ==
    /\ (entry \in Scorers /\ pc = "score_loop") => Len(weights) = pos - 1
    /\ (/\ JustScored
        /\ Len(bleached_claims) >= 1
        /\ \A b \in 1..Len(entail_probs) : entail_probs[b] > 0) =>
          /\ Len(entail_probs) = Len(bleached_claims)
          /\ \E b \in 1..Len(entail_probs) : weights[pos - 1] = NegLog(entail_probs[b])
          /\ \A b \in 1..Len(entail_probs) : weights[pos - 1] >= NegLog(entail_probs[b])
    /\ ScoringFinished =>
          /\ Len(weights) = NumClaims
          /\ (/\ Len(bleached_claims) >= 1
              /\ \A c \in 1..NumClaims : TrueMin(c) > 0) =>
                 \A c \in 1..NumClaims : weights[c] = NegLog(TrueMin(c))

\* the least answer of the last claim is not its last answer, and the two
\* claims differ in their least answers
WeightIsNegLogOfMinWitness ==
    /\ entry = "calculate_informativeness_weights"
    /\ outcome = "returned"
    /\ Len(bleached_claims) >= 2
    /\ NumClaims >= 2
    /\ \A c \in 1..NumClaims : TrueMin(c) > 0
    /\ entail_probs[Len(entail_probs)] > TrueMin(NumClaims)
    /\ \E ca, cb \in 1..NumClaims : result[ca] # result[cb]

\* ------------------------------------------------------------------ C9
\* C9: a selector call with a threshold outside [0, 1] or with an empty claim
\* list never returns a selection.
SelectorRejectsBadInput ==
    (entry \in Selectors /\ (threshold \notin 0..SimScale \/ NumClaims = 0)) =>
        outcome # "returned"

\* ------------------------------------------------------------------ C10
\* C10: a similarity computation that fails for a (candidate, accepted claim)
\* pair does not abort the selector: the candidate is dropped and the call
\* goes on to return a list without it.
SimilarityFailureDoesNotAbort ==
    failedPair # <<>> =>
        /\ outcome # "raised"
        /\ pc = "done" =>
              /\ outcome = "returned"
              /\ \A a \in 1..Len(result) :
                    Encode(subclaims[result[a] + 1]) # failedPair[1]

\* ------------------------------------------------------------------ C11
\* C11: an entailment query that fails for a (bleached claim, claim) pair does
\* not abort the scorer: the call goes on and returns one weight per claim.
EntailmentFailureDoesNotAbort ==
    failedEntailment # <<>> =>
        /\ outcome # "raised"
        /\ (pc = "done" /\ entry = "calculate_informativeness_weights") =>
              /\ outcome = "returned"
              /\ Len(result) = NumClaims


\* ------------------------------------------- properties of split_complex_fact
\* the outermost call has returned
SplitReturned == func = "split_complex_fact" /\ (at = "returned" \/ pass = 2)

\* what it returned
SplitOutput == IF pass = 1 THEN atomic_facts ELSE first_output

\* every returned fact has been split again
SplitAgainReturned == func = "split_complex_fact" /\ at = "done"

\* C12: splitting every fact of the output again gives the output back, same
\* facts in the same order.
SplitIdempotent ==
    SplitAgainReturned => atomic_facts = first_output

\* number of places where s holds ' m '
Occurrences(s, m) == Cardinality({i \in 1..Len(s) : MarkerAt(s, m, i)})

\* s holds a comma between two non-empty segments
CommaBetweenSegments(s) ==
    \E i \in 1..Len(s) :
        /\ s[i] = ","
        /\ \E j \in 1..(i - 1) : s[j] # ","
        /\ \E j \in (i + 1)..Len(s) : s[j] # ","

\* the facts split_complex_fact has returned so far
Returned == {atomic_facts[k] : k \in 1..Len(atomic_facts)}

\* C13: no fact returned by the splitter has a direct object with a comma
\* between two non-empty segments: such an object is split into one fact per
\* segment.
NoCommaSegmentsInOutput ==
    func = "split_complex_fact" =>
        \A f \in Returned : ~CommaBetweenSegments(f.direct_object)

\* C14: every fact returned by the splitter has at most one prepositional
\* fragment.
AtMostOnePrepositionalFragment ==
    func = "split_complex_fact" =>
        \A f \in Returned : Len(f.prepositional_objects) <= 1

\* the coordinator ' and ' is in the direct object or in a fragment of f
HasCoordinator(f) ==
    \/ HasMarker(f.direct_object, "and")
    \/ \E k \in 1..Len(f.prepositional_objects) : HasMarker(f.prepositional_objects[k], "and")

NoRelativeMarkerInOutput ==
    func = "split_complex_fact" =>
        \A f \in Returned :
            /\ ~HasMarker(f.direct_object, "that")
            /\ ~HasMarker(f.direct_object, "which")

RECURSIVE SumOccurrences(_, _)
SumOccurrences(ss, m) ==
    IF ss = <<>> THEN 0 ELSE Occurrences(Head(ss), m) + SumOccurrences(Tail(ss), m)

\* the splittable markers of a fact: commas, prepositional fragments beyond
\* the first, ' and ' occurrences, relative markers
SplittableMarkers(f) ==
    Cardinality({i \in 1..Len(f.direct_object) : f.direct_object[i] = ","})
    + (IF Len(f.prepositional_objects) > 1 THEN Len(f.prepositional_objects) - 1 ELSE 0)
    + Occurrences(f.direct_object, "and")
    + SumOccurrences(f.prepositional_objects, "and")
    + Occurrences(f.direct_object, "that")
    + Occurrences(f.direct_object, "which")

\* C17: every recursive call of the splitter is made on a fact with strictly
\* fewer splittable markers than the fact of the call that makes it.
RecursionReducesMarkers ==
    \A k \in 1..Len(calls) :
        calls[k].caller # NoFact =>
            SplittableMarkers(calls[k].fact) < SplittableMarkers(calls[k].caller)

\* ------------------------------------------- properties of decompose_sentence
\* the facts the extraction step has emitted so far
Extracted == {facts[k] : k \in 1..Len(facts)}

\* f is the fact of a root or conjunct verb (not of a relative clause)
IsVerbFact(f) == \E j \in 1..Len(VerbNames) : f.verb # <<>> /\ f.verb[Len(f.verb)] = VerbNames[j]

FactsOfVerb(v) ==
    {k \in 1..Len(numbered_facts) :
        \E j \in 1..Len(numbered_facts[k].text) : numbered_facts[k].text[j] = v}

\* the parse is one sentence, a root verb with a subject and one conjunct verb
\* without, and no relative clause
RootAndOneConjunct ==
    /\ Len(resolved_doc) = 1
    /\ Len(resolved_doc[1]) = 2
    /\ resolved_doc[1][1].subject # <<>>
    /\ resolved_doc[1][2].subject = <<>>
    /\ resolved_doc[1][1].relcls = <<>>
    /\ resolved_doc[1][2].relcls = <<>>

\* C19: for a root verb with a subject and one conjunct verb without,
\* decompose_sentence returns exactly two claims, one per verb, both with the
\* subject of the root.
OneClaimPerVerb ==
    (func = "run_pipeline" /\ at = "decomposed" /\ sentence \notin failed /\ RootAndOneConjunct) =>
        /\ Len(numbered_facts) = 2
        /\ Cardinality(FactsOfVerb("v1")) = 1
        /\ Cardinality(FactsOfVerb("v2")) = 1
        /\ \A k \in 1..Len(atomic_facts) :
              atomic_facts[k].subject = SubjectOf(resolved_doc, 1, 1, <<>>)

\* C20: when coreference resolution or parsing raises for a sentence,
\* decompose_sentence returns the empty list and nothing is raised, and the
\* loop over the sentences goes on to the end.
DecomposeFailureContained ==
    func = "run_pipeline" =>
        /\ at # "raised"
        /\ (at = "decomposed" /\ sentence \in failed) => numbered_facts = <<>>
        /\ at = "done" => sentence = sentences + 1

\* C20 witness: a sentence failed, and decompose_sentence has returned claims
\* for a later sentence.
DecomposeFailureContainedWitness ==
    /\ func = "run_pipeline"
    /\ at = "decomposed"
    /\ numbered_facts # <<>>
    /\ \E i \in failed : i < sentence

\* ------------------------------------------------------------------ C21
\* the orders in which n claims can be supplied
InputOrders(n) == Permutations(1..n)

\* the list s supplied in the order p
Permuted(s, p) == [k \in 1..Len(s) |-> s[p[k]]]

\* the claims that a returned list of indices names in the input cs
ClaimsAt(cs, idxs) == [k \in 1..Len(idxs) |-> cs[idxs[k] + 1]]

DistinctWeights == \A a, b \in 1..Len(weights) : a # b => weights[a] # weights[b]

\* C21: with pairwise-distinct weights, the claims the selector has returned,
\* in their order, are the claims it returns for every other order of the same
\* input (same claims, same weights, same similarities, same threshold).
SelectionIndependentOfInputOrder ==
    (SelectorReturned /\ DistinctWeights) =>
        \A p \in InputOrders(NumClaims) :
            ClaimsAt(Permuted(subclaims, p),
                     SelectCoreSubclaims(Permuted(subclaims, p), Permuted(weights, p),
                                         threshold))
                = ClaimsAt(subclaims, result)

\* C21 witness: three claims of distinct weights, not supplied by descending
\* weight, of which one was dropped.
SelectionIndependentOfInputOrderWitness ==
    /\ SelectorReturned
    /\ DistinctWeights
    /\ NumClaims = 3
    /\ Len(result) = 2
    /\ weights[1] < weights[2]

\* ------------------------------------------------------------------ C22
\* the selected claims ranked before claim i
AcceptedBefore(i) == {j \in Selected : RankedBefore(j, i)}

\* C22: a claim is in the returned list exactly when its similarity to every
\* selected claim ranked before it is <= the threshold (equality does not
\* reject), and every claim missing from the list has similarity > threshold to
\* a selected claim ranked before it.
AcceptedIffWithinThreshold ==
    SelectorReturned =>
        /\ \A i \in Indices :
              i \in Selected <=> \A j \in AcceptedBefore(i) : SimOf(i, j) <= threshold
        /\ \A i \in Indices \ Selected :
              \E j \in AcceptedBefore(i) : SimOf(i, j) > threshold

\* C22 witness: a claim was accepted with similarity exactly equal to the
\* threshold to a claim accepted before it, and another claim was dropped.
AcceptedIffWithinThresholdWitness ==
    /\ SelectorReturned
    /\ Indices \ Selected # {}
    /\ \E i \in Selected : \E j \in AcceptedBefore(i) : SimOf(i, j) = threshold

\* ------------------------------------------------------------------ C23
\* position of the relative marker in a direct object '<head> that <verb>
\* <object>': words only around one "that", at least one word of head, the
\* verb and at least one word of object
ThatAt(d) == CHOOSE i \in 1..Len(d) : d[i] = "that"

IsHeadThatVerbObject(f) ==
    /\ Specials(f.direct_object) = 1
    /\ \E i \in 2..(Len(f.direct_object) - 2) : f.direct_object[i] = "that"
    /\ \A k \in 1..Len(f.prepositional_objects) :
          Specials(f.prepositional_objects[k]) = 0

\* C23: for a fact whose direct object is '<head> that <verb> <object>' the
\* splitter returns exactly two facts: the main fact, equal to the input but
\* for the direct object truncated to the head, and a secondary fact whose
\* subject is the head or the subject of the input (not the relative marker),
\* whose verb is the verb of the clause and whose object is its object.
RelativeSplitsInTwo ==
    (func = "split_complex_fact" /\ pass = 1 /\ at = "returned"
        /\ IsHeadThatVerbObject(fact)) =>
        LET d == fact.direct_object
            i == ThatAt(d)
            head == SubSeq(d, 1, i - 1)
        IN  /\ Len(atomic_facts) = 2
            /\ \E k \in 1..2 :
                  /\ atomic_facts[k] = [fact EXCEPT !.direct_object = head]
                  /\ atomic_facts[3 - k].subject \in {head, fact.subject}
                  /\ atomic_facts[3 - k].verb = <<d[i + 1]>>
                  /\ atomic_facts[3 - k].direct_object = SubSeq(d, i + 2, Len(d))

\* ------------------------------------------------------------------ C24
\* the subject most recently established by the verbs 1..k of sentence i of
\* the parse, <<>> if none of them has a subject child
RECURSIVE EstablishedIn(_, _, _)
EstablishedIn(doc, i, k) ==
    IF k = 0 THEN <<>>
    ELSE IF doc[i][k].subject # <<>> THEN SubjectOf(doc, i, k, <<>>)
    ELSE EstablishedIn(doc, i, k - 1)

\* C24: the subject that a verb with no subject child takes over is the one
\* most recently established by an earlier verb of the same sentence; when
\* the loop reaches a sentence of the parse, no subject of an earlier sentence
\* is left to be carried over.
CarriedSubjectFromSameSentence ==
    (func = "run_pipeline" /\ at = "extract" /\ sent <= Len(resolved_doc)) =>
        current_subject = EstablishedIn(resolved_doc, sent, token - 1)

\* ------------------------------------------------------------------ C25
\* the loop of decompose_sentence is past verb k of sentence i
Processed(i, k) == i < sent \/ (i = sent /\ k < token)

\* C25: the fact extracted for a verb with a subject child has as subject the
\* subject token prefixed by the left modifiers of the subject token itself,
\* and so has the fact of a relative clause; modifiers that hang on the verb
\* are not part of it.
SubjectWithOwnModifiers ==
    (func = "run_pipeline" /\ at = "extract") =>
        \A i \in 1..Len(resolved_doc) : \A k \in 1..Len(resolved_doc[i]) :
            LET v == resolved_doc[i][k]
            IN  /\ (Processed(i, k) /\ v.subject # <<>>) =>
                      \E f \in Extracted :
                          /\ f.verb = FullVerb(resolved_doc, i, k)
                          /\ f.subject = v.subject[1].lefts
                                             \o <<SubjectText(resolved_doc, i, k)>>
                /\ (Processed(i, k) /\ v.relcls # <<>> /\ v.relcls[1].subject # <<>>) =>
                      \E f \in Extracted :
                          /\ f.verb = <<"w">>
                          /\ f.subject = v.relcls[1].subject[1].lefts \o <<"w">>

\* ------------------------------------------------------------------ C26
\* number of calls of encode for the claim with index i
TimesEncoded(i) == Cardinality({k \in 1..Len(encodings) : encodings[k] = i})

\* C26: during a call of the selector every input claim is encoded at most
\* once, exactly once when the call has returned, and the stored embeddings
\* are those of the accepted claims, in the order of acceptance.
EachClaimEncodedOnce ==
    /\ \A i \in Indices : TimesEncoded(i) <= 1
    /\ SelectorReturned => \A i \in Indices : TimesEncoded(i) = 1
    /\ (entry \in Selectors /\ pc \in {"select_loop", "done"}) =>
          /\ Len(selected_embeddings) = Len(selected_indices)
          /\ \A k \in 1..Len(selected_indices) :
                selected_embeddings[k] = Encode(subclaims[selected_indices[k] + 1])

\* C26 witness: a call with three claims has returned after a candidate was
\* compared with two accepted claims.
EachClaimEncodedOnceWitness ==
    /\ SelectorReturned
    /\ NumClaims = 3
    /\ Len(result) = 3
    /\ Len(encodings) = 3

\* ------------------------------------------------------------------ C27
\* number of tokens of a chunk
RECURSIVE ChunkTokens(_)
ChunkTokens(c) ==
    IF c = <<>> THEN 0 ELSE sentence_lengths[Head(c)] + ChunkTokens(Tail(c))

\* C27: every chunk sent to the coreference API is a non-empty run of
\* consecutive sentences with fewer than max_length tokens together.
SentChunksWithinLimit ==
    \A k \in 1..queried :
        /\ chunks[k] # <<>>
        /\ \A j \in 2..Len(chunks[k]) : chunks[k][j] = chunks[k][j - 1] + 1
        /\ ChunkTokens(chunks[k]) < max_length

\* ------------------------------------------------------------------ C28
\* C28: when the call returns after a request that failed in transport or with
\* an error status, the attempts are used up and the value is the subclaim.
FailedRequestRetried ==
    (decontext_at = "returned" /\ response.kind \in {"transport_error", "http_error"}) =>
        /\ attempt_number = StopAfterAttempt
        /\ returned_value = [kind |-> "returned_subclaim", text |-> arg_subclaim]

====
